---- MODULE Spec2Model ----
(***************************************************************************)
(* The domain schema of neurozen/core/models.py as a record store.  Every  *)
(* table is a function from primary keys to rows.  A write is the          *)
(* validated write the admin and CRUD views perform: the declared field    *)
(* validators, choices and unique_together checks (Model.full_clean), then *)
(* the save; a delete runs the on_delete policy of every relation that     *)
(* points at the deleted rows (CASCADE, SET_NULL).                         *)
(***************************************************************************)
EXTENDS Integers, FiniteSets, Sequences, TLC

\* ---------------------------------------------------------------- bounds
\* How many rows of each table a behaviour may create (primary keys are
\* auto-incremented and never reused).
MaxCategories == 2
MaxTags == 2
MaxTasks == 3
MaxTreeTasks == 4
MaxSessions == 2
MaxMoods == 3
MaxEntries == 2
MaxDay == 2
\* Rows per table where one row of a table is enough, and rows in the whole
\* store where every table takes part.
MaxOwned == 1
MaxRows == 4

\* ------------------------------------------------------------- constants
NULL == 0

Users == {"u1", "u2"}
Names == {"work", "home"}

\* Category.COLOR_CHOICES / Tag.TAG_COLOR_CHOICES: the stored values.
COLOR_CHOICES ==
    {"#FFF5E6", "#F5F5F5", "#FFE4E1", "#FFDAB9", "#F44336", "#E0E0E0"}
TAG_COLOR_CHOICES ==
    {"#FFF5E6", "#F5F5F5", "#FFE4E1", "#FFDAB9", "#E0E0E0", "#F44336"}
CategoryColorDefault == "#FFF5E6"
TagColorDefault == "#FFF5E6"

\* Task.PRIORITY_CHOICES / Task.STATUS_CHOICES: the stored values, and the
\* labels get_priority_display / get_status_display give them.
PRIORITY_CHOICES == {"L", "M", "H"}
STATUS_CHOICES == {"P", "IP", "C"}
PriorityLabel == [p \in PRIORITY_CHOICES |->
    CASE p = "L" -> "Low" [] p = "M" -> "Medium" [] p = "H" -> "High"]
StatusLabel == [s \in STATUS_CHOICES |->
    CASE s = "P" -> "Pending" [] s = "IP" -> "In Progress" [] s = "C" -> "Completed"]
\* The default taken from the wrong end of the choices.
TaskStatusLastChoice == "C"
TaskPriorityDefault == "M"
TaskStatusDefault == "P"
NoteColorDefault == "#FFFFFF"
PomodoroDurationDefault == 25
RewardPointsDefault == 0
DIFFICULTY_CHOICES == {"E", "M", "H"}
DifficultyDefault == "E"
MOOD_CHOICES == {"1", "2", "3", "4", "5"}
EnergyMin == 1
EnergyMax == 10

VARIABLES
    users,       \* the accounts that exist (django.contrib.auth User)
    categories,  \* Category rows by id
    tags,        \* Tag rows by id
    tasks,       \* Task rows by id
    notes,       \* Note rows by id
    sessions,    \* PomodoroSession rows by id
    rewards,     \* Reward rows by id
    quotes,      \* DailyQuote rows by id
    exercises,   \* BreathingExercise rows by id
    moods,       \* MoodEntry rows by id
    nextId,      \* the next primary key of each table
    today,       \* the current date (timezone.now)
    last         \* the last operation: its name, arguments and outcome

vars == <<users, categories, tags, tasks, notes, sessions, rewards, quotes,
          exercises, moods, nextId, today, last>>

tables == <<categories, tags, tasks, notes, sessions, rewards, quotes,
            exercises, moods>>

\* ----------------------------------------------------------------- helpers
\* A keyword argument of a write, or the field's declared default when the
\* caller left it out.
Field(kw, f, default) == IF f \in DOMAIN kw THEN kw[f] ELSE default

\* table with the rows of `gone` removed / with row `id` set to `row`.
Without(table, gone) == [i \in DOMAIN table \ gone |-> table[i]]
Put(table, id, row) == [i \in DOMAIN table \cup {id} |-> IF i = id THEN row ELSE table[i]]

Outcome(op, id, kw, result, deleted, cleared) ==
    [op |-> op, id |-> id, kw |-> kw, result |-> result,
     deleted |-> deleted, cleared |-> cleared]

Rejected(op, id, kw, result) ==
    /\ last' = Outcome(op, id, kw, result, {}, {})
    /\ UNCHANGED <<users, tables, nextId, today>>

\* The set of rows of `table` owned by account u.
OwnedBy(table, u) == {i \in DOMAIN table : table[i].user = u}

Init ==
    /\ users = Users
    /\ categories = <<>>
    /\ tags = <<>>
    /\ tasks = <<>>
    /\ notes = <<>>
    /\ sessions = <<>>
    /\ rewards = <<>>
    /\ quotes = <<>>
    /\ exercises = <<>>
    /\ moods = <<>>
    /\ nextId = [category |-> 1, tag |-> 1, task |-> 1, note |-> 1, session |-> 1,
                 reward |-> 1, quote |-> 1, exercise |-> 1, mood |-> 1]
    /\ today = 1
    /\ last = Outcome("init", NULL, <<>>, "ok", {}, {})

\* ------------------------------------------------------- Category and Tag
\* The constraint as unique=True on name would state it.
UniqueNameOnly(table, id, u, n) ==
    \A i \in DOMAIN table \ {id} : table[i].name # n

\* Meta.unique_together = ['user', 'name']: no other row of the table has
\* this (user, name).
UniqueUserName(table, id, u, n) ==
    \A i \in DOMAIN table \ {id} : ~(table[i].user = u /\ table[i].name = n)

CategoryValid(row) == row.user \in users /\ row.color \in COLOR_CHOICES
TagValid(row) == row.user \in users /\ row.color \in TAG_COLOR_CHOICES

CategoryRow(kw) ==
    [user |-> kw.user, name |-> kw.name,
     color |-> Field(kw, "color", CategoryColorDefault)]

TagRow(kw) ==
    [user |-> kw.user, name |-> kw.name,
     color |-> Field(kw, "color", TagColorDefault)]

CreateCategory(kw) ==
    LET row == CategoryRow(kw)
        id == nextId.category
    IN  IF ~CategoryValid(row)
        THEN Rejected("CreateCategory", NULL, kw, "ValidationError")
        ELSE IF ~UniqueUserName(categories, NULL, row.user, row.name)
        THEN Rejected("CreateCategory", NULL, kw, "UniquenessViolation")
        ELSE /\ categories' = Put(categories, id, row)
             /\ nextId' = [nextId EXCEPT !.category = id + 1]
             /\ last' = Outcome("CreateCategory", id, kw, "ok", {}, {})
             /\ UNCHANGED <<users, tags, tasks, notes, sessions, rewards, quotes,
                            exercises, moods, today>>

\* A row with the fields of kw overwritten.
Merge(row, kw) == [f \in DOMAIN row |-> IF f \in DOMAIN kw THEN kw[f] ELSE row[f]]

UpdateCategory(id, kw) ==
    IF id \notin DOMAIN categories
    THEN Rejected("UpdateCategory", id, kw, "NotFound")
    ELSE LET row == Merge(categories[id], kw)
         IN  IF ~CategoryValid(row)
             THEN Rejected("UpdateCategory", id, kw, "ValidationError")
             ELSE IF ~UniqueUserName(categories, id, row.user, row.name)
             THEN Rejected("UpdateCategory", id, kw, "UniquenessViolation")
             ELSE /\ categories' = Put(categories, id, row)
                  /\ last' = Outcome("UpdateCategory", id, kw, "ok", {}, {})
                  /\ UNCHANGED <<users, tags, tasks, notes, sessions, rewards,
                                 quotes, exercises, moods, nextId, today>>

CreateTag(kw) ==
    LET row == TagRow(kw)
        id == nextId.tag
    IN  IF ~TagValid(row)
        THEN Rejected("CreateTag", NULL, kw, "ValidationError")
        ELSE IF ~UniqueUserName(tags, NULL, row.user, row.name)
        THEN Rejected("CreateTag", NULL, kw, "UniquenessViolation")
        ELSE /\ tags' = Put(tags, id, row)
             /\ nextId' = [nextId EXCEPT !.tag = id + 1]
             /\ last' = Outcome("CreateTag", id, kw, "ok", {}, {})
             /\ UNCHANGED <<users, categories, tasks, notes, sessions, rewards,
                            quotes, exercises, moods, today>>

UpdateTag(id, kw) ==
    IF id \notin DOMAIN tags
    THEN Rejected("UpdateTag", id, kw, "NotFound")
    ELSE LET row == Merge(tags[id], kw)
         IN  IF ~TagValid(row)
             THEN Rejected("UpdateTag", id, kw, "ValidationError")
             ELSE IF ~UniqueUserName(tags, id, row.user, row.name)
             THEN Rejected("UpdateTag", id, kw, "UniquenessViolation")
             ELSE /\ tags' = Put(tags, id, row)
                  /\ last' = Outcome("UpdateTag", id, kw, "ok", {}, {})
                  /\ UNCHANGED <<users, categories, tasks, notes, sessions, rewards,
                                 quotes, exercises, moods, nextId, today>>

\* ------------------------------------------------------------------- Task
\* The field with its choices never looked at.
PriorityUnchecked(p) == TRUE

\* priority = CharField(max_length=1, choices=PRIORITY_CHOICES)
PriorityValid(p) == p \in PRIORITY_CHOICES
\* status = CharField(max_length=2, choices=STATUS_CHOICES)
StatusValid(s) == s \in STATUS_CHOICES

TaskRow(kw) ==
    [user |-> kw.user, title |-> kw.title,
     priority |-> Field(kw, "priority", TaskPriorityDefault),
     status |-> Field(kw, "status", TaskStatusDefault),
     category |-> Field(kw, "category", NULL),
     tags |-> Field(kw, "tags", {}),
     parent_task |-> Field(kw, "parent_task", NULL)]

\* Every foreign key names an existing row or is null, every choice field
\* holds one of its choices.
TaskValid(row) ==
    /\ row.user \in users
    /\ PriorityValid(row.priority)
    /\ StatusValid(row.status)
    /\ row.category = NULL \/ row.category \in DOMAIN categories
    /\ row.tags \subseteq DOMAIN tags
    /\ row.parent_task = NULL \/ row.parent_task \in DOMAIN tasks

CreateTask(kw) ==
    LET row == TaskRow(kw)
        id == nextId.task
    IN  IF ~TaskValid(row)
        THEN Rejected("CreateTask", NULL, kw, "ValidationError")
        ELSE /\ tasks' = Put(tasks, id, row)
             /\ nextId' = [nextId EXCEPT !.task = id + 1]
             /\ last' = Outcome("CreateTask", id, kw, "ok", {}, {})
             /\ UNCHANGED <<users, categories, tags, notes, sessions, rewards,
                            quotes, exercises, moods, today>>

UpdateTask(id, kw) ==
    IF id \notin DOMAIN tasks
    THEN Rejected("UpdateTask", id, kw, "NotFound")
    ELSE LET row == Merge(tasks[id], kw)
         IN  IF ~TaskValid(row)
             THEN Rejected("UpdateTask", id, kw, "ValidationError")
             ELSE /\ tasks' = Put(tasks, id, row)
                  /\ last' = Outcome("UpdateTask", id, kw, "ok", {}, {})
                  /\ UNCHANGED <<users, categories, tags, notes, sessions, rewards,
                                 quotes, exercises, moods, nextId, today>>

\* ------------------------------------------------- on_delete of the relations
\* The rows of `table` that refer to a row of `gone` through field f.
Referring(table, f, gone) == {i \in DOMAIN table : table[i][f] \in gone}

\* A cascade that stops at the direct subtasks.
DirectSubtasks(table, gone) ==
    gone \cup {t \in DOMAIN table : table[t].parent_task \in gone}

\* Task.parent_task, on_delete=CASCADE: the tasks deleted with the tasks of
\* `gone` are those whose parent is deleted, and so on (the deletion
\* collector follows the relation until it finds nothing new).
RECURSIVE Subtasks(_, _)
Subtasks(table, gone) ==
    LET more == {t \in DOMAIN table \ gone : table[t].parent_task \in gone}
    IN  IF more = {} THEN gone ELSE Subtasks(table, gone \cup more)

\* The relation as on_delete=CASCADE would treat it.
CategoryOnDeleteCascade(table, gone) ==
    Without(table, Referring(table, "category", gone))

\* Task.category, on_delete=SET_NULL: the surviving tasks, with a reference
\* to a deleted category cleared.
CategoryOnDelete(table, gone) ==
    [t \in DOMAIN table |->
        IF table[t].category \in gone
        THEN [table[t] EXCEPT !.category = NULL] ELSE table[t]]

\* Task.tags, ManyToManyField: the rows of the junction table that name a
\* deleted tag go with it.
TagsOnDelete(table, gone) ==
    [t \in DOMAIN table |-> [table[t] EXCEPT !.tags = @ \ gone]]

\* The relation as on_delete=CASCADE would treat it.
TaskOnDeleteCascade(table, gone) ==
    Without(table, Referring(table, "task", gone))

\* PomodoroSession.task, on_delete=SET_NULL.
TaskOnDelete(table, gone) ==
    [s \in DOMAIN table |->
        IF table[s].task \in gone
        THEN [table[s] EXCEPT !.task = NULL] ELSE table[s]]

DeleteCategory(id) ==
    IF id \notin DOMAIN categories
    THEN Rejected("DeleteCategory", id, <<>>, "NotFound")
    ELSE /\ categories' = Without(categories, {id})
         /\ tasks' = CategoryOnDelete(tasks, {id})
         /\ last' = Outcome("DeleteCategory", id, <<>>, "ok", {id},
                            Referring(tasks, "category", {id}))
         /\ UNCHANGED <<users, tags, notes, sessions, rewards, quotes, exercises,
                        moods, nextId, today>>

DeleteTag(id) ==
    IF id \notin DOMAIN tags
    THEN Rejected("DeleteTag", id, <<>>, "NotFound")
    ELSE /\ tags' = Without(tags, {id})
         /\ tasks' = TagsOnDelete(tasks, {id})
         /\ last' = Outcome("DeleteTag", id, <<>>, "ok", {id},
                            {t \in DOMAIN tasks : id \in tasks[t].tags})
         /\ UNCHANGED <<users, categories, notes, sessions, rewards, quotes,
                        exercises, moods, nextId, today>>

DeleteTask(id) ==
    IF id \notin DOMAIN tasks
    THEN Rejected("DeleteTask", id, <<>>, "NotFound")
    ELSE LET gone == Subtasks(tasks, {id})
         IN  /\ tasks' = Without(tasks, gone)
             /\ sessions' = TaskOnDelete(sessions, gone)
             /\ last' = Outcome("DeleteTask", id, <<>>, "ok", gone,
                                Referring(sessions, "task", gone))
             /\ UNCHANGED <<users, categories, tags, notes, rewards, quotes,
                            exercises, moods, nextId, today>>

\* ------------------------------------- Note, PomodoroSession, Reward
NoteRow(kw) ==
    [user |-> kw.user, title |-> kw.title,
     is_pinned |-> Field(kw, "is_pinned", FALSE),
     color |-> Field(kw, "color", NoteColorDefault)]

CreateNote(kw) ==
    LET row == NoteRow(kw)
        id == nextId.note
    IN  IF row.user \notin users
        THEN Rejected("CreateNote", NULL, kw, "ValidationError")
        ELSE /\ notes' = Put(notes, id, row)
             /\ nextId' = [nextId EXCEPT !.note = id + 1]
             /\ last' = Outcome("CreateNote", id, kw, "ok", {}, {})
             /\ UNCHANGED <<users, categories, tags, tasks, sessions, rewards,
                            quotes, exercises, moods, today>>

SessionRow(kw) ==
    [user |-> kw.user,
     start_time |-> today,
     end_time |-> Field(kw, "end_time", NULL),
     duration |-> Field(kw, "duration", PomodoroDurationDefault),
     is_completed |-> Field(kw, "is_completed", FALSE),
     task |-> Field(kw, "task", NULL)]

SessionValid(row) ==
    /\ row.user \in users
    /\ row.task = NULL \/ row.task \in DOMAIN tasks

CreatePomodoroSession(kw) ==
    LET row == SessionRow(kw)
        id == nextId.session
    IN  IF ~SessionValid(row)
        THEN Rejected("CreatePomodoroSession", NULL, kw, "ValidationError")
        ELSE /\ sessions' = Put(sessions, id, row)
             /\ nextId' = [nextId EXCEPT !.session = id + 1]
             /\ last' = Outcome("CreatePomodoroSession", id, kw, "ok", {}, {})
             /\ UNCHANGED <<users, categories, tags, tasks, notes, rewards,
                            quotes, exercises, moods, today>>

RewardRow(kw) ==
    [user |-> kw.user, name |-> kw.name,
     points_required |-> Field(kw, "points_required", RewardPointsDefault),
     is_claimed |-> Field(kw, "is_claimed", FALSE)]

CreateReward(kw) ==
    LET row == RewardRow(kw)
        id == nextId.reward
    IN  IF row.user \notin users
        THEN Rejected("CreateReward", NULL, kw, "ValidationError")
        ELSE /\ rewards' = Put(rewards, id, row)
             /\ nextId' = [nextId EXCEPT !.reward = id + 1]
             /\ last' = Outcome("CreateReward", id, kw, "ok", {}, {})
             /\ UNCHANGED <<users, categories, tags, tasks, notes, sessions,
                            quotes, exercises, moods, today>>

\* ------------------------------------- DailyQuote, BreathingExercise
\* date = DateField(unique=True)
UniqueDate(table, id, d) == \A i \in DOMAIN table \ {id} : table[i].date # d

QuoteRow(kw) ==
    [quote |-> kw.quote, date |-> kw.date,
     is_active |-> Field(kw, "is_active", TRUE)]

CreateDailyQuote(kw) ==
    LET row == QuoteRow(kw)
        id == nextId.quote
    IN  IF ~UniqueDate(quotes, NULL, row.date)
        THEN Rejected("CreateDailyQuote", NULL, kw, "UniquenessViolation")
        ELSE /\ quotes' = Put(quotes, id, row)
             /\ nextId' = [nextId EXCEPT !.quote = id + 1]
             /\ last' = Outcome("CreateDailyQuote", id, kw, "ok", {}, {})
             /\ UNCHANGED <<users, categories, tags, tasks, notes, sessions,
                            rewards, exercises, moods, today>>

ExerciseRow(kw) ==
    [name |-> kw.name, duration |-> kw.duration,
     difficulty |-> Field(kw, "difficulty", DifficultyDefault)]

CreateBreathingExercise(kw) ==
    LET row == ExerciseRow(kw)
        id == nextId.exercise
    IN  IF row.difficulty \notin DIFFICULTY_CHOICES
        THEN Rejected("CreateBreathingExercise", NULL, kw, "ValidationError")
        ELSE /\ exercises' = Put(exercises, id, row)
             /\ nextId' = [nextId EXCEPT !.exercise = id + 1]
             /\ last' = Outcome("CreateBreathingExercise", id, kw, "ok", {}, {})
             /\ UNCHANGED <<users, categories, tags, tasks, notes, sessions,
                            rewards, quotes, moods, today>>

\* --------------------------------------------------------------- MoodEntry
\* The upper limit off by one.
EnergyLevelUpToEleven(e) == e >= EnergyMin /\ e <= EnergyMax + 1

\* validators=[MinValueValidator(1), MaxValueValidator(10)]
EnergyLevelValid(e) == e >= EnergyMin /\ e <= EnergyMax

\* The table without the constraint.
UniqueUserDateMissing(table, id, u, d) == TRUE

\* Meta.unique_together = ['user', 'date']
UniqueUserDate(table, id, u, d) ==
    \A i \in DOMAIN table \ {id} : ~(table[i].user = u /\ table[i].date = d)

MoodRow(kw) ==
    [user |-> kw.user,
     date |-> Field(kw, "date", today),
     mood |-> kw.mood,
     energy_level |-> kw.energy_level]

MoodValid(row) ==
    /\ row.user \in users
    /\ row.mood \in MOOD_CHOICES
    /\ EnergyLevelValid(row.energy_level)

CreateMoodEntry(kw) ==
    LET row == MoodRow(kw)
        id == nextId.mood
    IN  IF ~MoodValid(row)
        THEN Rejected("CreateMoodEntry", NULL, kw, "ValidationError")
        ELSE IF ~UniqueUserDate(moods, NULL, row.user, row.date)
        THEN Rejected("CreateMoodEntry", NULL, kw, "UniquenessViolation")
        ELSE /\ moods' = Put(moods, id, row)
             /\ nextId' = [nextId EXCEPT !.mood = id + 1]
             /\ last' = Outcome("CreateMoodEntry", id, kw, "ok", {}, {})
             /\ UNCHANGED <<users, categories, tags, tasks, notes, sessions,
                            rewards, quotes, exercises, today>>

UpdateMoodEntry(id, kw) ==
    IF id \notin DOMAIN moods
    THEN Rejected("UpdateMoodEntry", id, kw, "NotFound")
    ELSE LET row == Merge(moods[id], kw)
         IN  IF ~MoodValid(row)
             THEN Rejected("UpdateMoodEntry", id, kw, "ValidationError")
             ELSE IF ~UniqueUserDate(moods, id, row.user, row.date)
             THEN Rejected("UpdateMoodEntry", id, kw, "UniquenessViolation")
             ELSE /\ moods' = Put(moods, id, row)
                  /\ last' = Outcome("UpdateMoodEntry", id, kw, "ok", {}, {})
                  /\ UNCHANGED <<users, categories, tags, tasks, notes, sessions,
                                 rewards, quotes, exercises, nextId, today>>

DeleteMoodEntry(id) ==
    IF id \notin DOMAIN moods
    THEN Rejected("DeleteMoodEntry", id, <<>>, "NotFound")
    ELSE /\ moods' = Without(moods, {id})
         /\ last' = Outcome("DeleteMoodEntry", id, <<>>, "ok", {id}, {})
         /\ UNCHANGED <<users, categories, tags, tasks, notes, sessions,
                        rewards, quotes, exercises, nextId, today>>

\* The date moves on.
NextDay ==
    /\ today' = today + 1
    /\ last' = Outcome("NextDay", NULL, <<>>, "ok", {}, {})
    /\ UNCHANGED <<users, tables, nextId>>

\* ----------------------------------------------------------------- account
\* user = ForeignKey(User, on_delete=CASCADE) of seven tables: the rows of
\* `table` that go with account u.
UserOnDelete(table, u) == OwnedBy(table, u)

DeleteUser(u) ==
    IF u \notin users
    THEN Rejected("DeleteUser", u, <<>>, "NotFound")
    ELSE LET goneCategories == UserOnDelete(categories, u)
             goneTags == UserOnDelete(tags, u)
             goneTasks == Subtasks(tasks, UserOnDelete(tasks, u))
             goneSessions == UserOnDelete(sessions, u)
         IN  /\ users' = users \ {u}
             /\ categories' = Without(categories, goneCategories)
             /\ tags' = Without(tags, goneTags)
             /\ tasks' = TagsOnDelete(
                            CategoryOnDelete(Without(tasks, goneTasks), goneCategories),
                            goneTags)
             /\ notes' = Without(notes, UserOnDelete(notes, u))
             /\ sessions' = TaskOnDelete(Without(sessions, goneSessions), goneTasks)
             /\ rewards' = Without(rewards, UserOnDelete(rewards, u))
             /\ moods' = Without(moods, UserOnDelete(moods, u))
             /\ last' = Outcome("DeleteUser", u, <<>>, "ok", goneTasks, {})
             /\ UNCHANGED <<quotes, exercises, nextId, today>>

\* ====================================================== specifications
\* --------------------------------------- categories and tags of two accounts
NamedInputs ==
    [user : Users, name : Names]
NamedChanges ==
    [name : Names] \cup [user : Users]

NextNames ==
    \/ \E kw \in NamedInputs :
          nextId.category <= MaxCategories /\ CreateCategory(kw)
    \/ \E id \in 1..MaxCategories, kw \in NamedChanges : UpdateCategory(id, kw)
    \/ \E id \in 1..MaxCategories : DeleteCategory(id)
    \/ \E kw \in NamedInputs : nextId.tag <= MaxTags /\ CreateTag(kw)
    \/ \E id \in 1..MaxTags, kw \in NamedChanges : UpdateTag(id, kw)
    \/ \E id \in 1..MaxTags : DeleteTag(id)
    \/ \E u \in Users : DeleteUser(u)

SpecNames == Init /\ [][NextNames]_vars

\* ----------------------------------------------------- the tree of subtasks
ParentInputs ==
    {[user |-> "u1", title |-> "a"]}
        \cup {[user |-> "u1", title |-> "a", parent_task |-> p] : p \in 1..MaxTreeTasks}

NextTree ==
    \/ \E kw \in ParentInputs : nextId.task <= MaxTreeTasks /\ CreateTask(kw)
    \/ \E id \in 1..MaxTreeTasks, p \in 0..MaxTreeTasks :
          UpdateTask(id, [parent_task |-> p])
    \/ \E id \in 1..MaxTreeTasks : DeleteTask(id)

SpecTree == Init /\ [][NextTree]_vars

\* ------------------------------------------- pomodoro sessions of tasks
SubtaskInputs ==
    {[user |-> "u1", title |-> "a"]}
        \cup {[user |-> "u1", title |-> "a", parent_task |-> p] : p \in 1..MaxTasks}
SessionInputs ==
    {[user |-> "u1", task |-> t] : t \in 0..MaxTasks}
        \cup {[user |-> "u2", task |-> 2, duration |-> 50, is_completed |-> TRUE,
               end_time |-> 1]}

NextSessions ==
    \/ \E kw \in SubtaskInputs : nextId.task <= MaxTasks /\ CreateTask(kw)
    \/ \E kw \in SessionInputs :
          nextId.session <= MaxSessions /\ CreatePomodoroSession(kw)
    \/ \E id \in 1..MaxTasks : DeleteTask(id)

SpecSessions == Init /\ [][NextSessions]_vars

\* ------------------------------------------------- tasks of categories
CategorisedInputs ==
    {[user |-> "u1", title |-> "a", category |-> c] : c \in 0..MaxCategories}
        \cup {[user |-> "u2", title |-> "b", priority |-> "H", status |-> "C",
               category |-> c, tags |-> {1}, parent_task |-> 1] : c \in 1..MaxCategories}

NextCategorised ==
    \/ \E n \in Names :
          nextId.category <= MaxCategories /\ CreateCategory([user |-> "u1", name |-> n])
    \/ nextId.tag <= MaxOwned /\ CreateTag([user |-> "u1", name |-> "work"])
    \/ \E kw \in CategorisedInputs : nextId.task <= MaxTasks /\ CreateTask(kw)
    \/ \E id \in 1..MaxCategories : DeleteCategory(id)

SpecCategorised == Init /\ [][NextCategorised]_vars

\* ------------------------------------------------------------ mood entries
\* One entry per account and date.
MoodInputs ==
    [user : Users, mood : {"3"}, energy_level : {5}]
        \cup [user : Users, mood : {"3"}, energy_level : {5}, date : {1}]
MoodChanges ==
    [date : 1..MaxDay] \cup [user : Users]

NextMood ==
    \/ \E kw \in MoodInputs : nextId.mood <= MaxMoods /\ CreateMoodEntry(kw)
    \/ \E id \in 1..MaxMoods, kw \in MoodChanges : UpdateMoodEntry(id, kw)
    \/ \E id \in 1..MaxMoods : DeleteMoodEntry(id)
    \/ today < MaxDay /\ NextDay

SpecMood == Init /\ [][NextMood]_vars

\* The energy level of an entry.
EnergyInputs ==
    [user : Users, mood : {"3"}, energy_level : {0, 1, 10, 11}]
        \cup {[user |-> "u1", mood |-> "9", energy_level |-> 10]}
EnergyChanges ==
    [energy_level : {0, 1, 5, 10, 11}]

NextEnergy ==
    \/ \E kw \in EnergyInputs : nextId.mood <= MaxEntries /\ CreateMoodEntry(kw)
    \/ \E id \in 1..MaxEntries, kw \in EnergyChanges : UpdateMoodEntry(id, kw)
    \/ \E id \in 1..MaxEntries : DeleteMoodEntry(id)

SpecEnergy == Init /\ [][NextEnergy]_vars

\* ----------------------------------------- what a create stores, and reads back
TaskInputs ==
    {[user |-> "u1", title |-> "a"]}
        \cup {[user |-> "u1", title |-> "a", priority |-> p] :
                 p \in {"L", "M", "H", "low", "medium", "high", "urgent"}}
        \cup {[user |-> "u1", title |-> "a", status |-> s] : s \in {"C", "pending"}}
TaskChanges ==
    [priority : {"L", "H", "low", "urgent"}] \cup [status : {"IP", "completed"}]
NoteInputs ==
    {[user |-> "u1", title |-> "n"],
     [user |-> "u1", title |-> "n", color |-> "#F44336", is_pinned |-> TRUE]}
TimedInputs ==
    {[user |-> "u1"], [user |-> "u1", duration |-> 50, is_completed |-> TRUE]}

NextDefaults ==
    \/ \E kw \in TaskInputs : nextId.task <= MaxOwned /\ CreateTask(kw)
    \/ \E id \in 1..MaxOwned, kw \in TaskChanges : UpdateTask(id, kw)
    \/ \E kw \in NoteInputs : nextId.note <= MaxOwned /\ CreateNote(kw)
    \/ \E kw \in TimedInputs :
          nextId.session <= MaxOwned /\ CreatePomodoroSession(kw)

SpecDefaults == Init /\ [][NextDefaults]_vars

\* ------------------------------------------------- every table, two accounts
\* The rows created so far, over all tables.
Created ==
    nextId.category + nextId.tag + nextId.task + nextId.note + nextId.session
        + nextId.reward + nextId.quote + nextId.exercise + nextId.mood - 9

NextAccount ==
    \/ \E u \in Users :
          /\ Created < MaxRows
          /\ nextId.category <= MaxOwned
          /\ CreateCategory([user |-> u, name |-> "work"])
    \/ \E u \in Users :
          /\ Created < MaxRows
          /\ nextId.tag <= MaxOwned
          /\ CreateTag([user |-> u, name |-> "work"])
    \/ \E u \in Users, c \in {NULL, 1}, p \in {NULL, 1}, g \in {{}, {1}} :
          /\ Created < MaxRows
          /\ nextId.task <= MaxTasks
          /\ CreateTask([user |-> u, title |-> "a", category |-> c, tags |-> g,
                         parent_task |-> p])
    \/ \E u \in Users :
          /\ Created < MaxRows
          /\ nextId.note <= MaxOwned
          /\ CreateNote([user |-> u, title |-> "n"])
    \/ \E u \in Users, t \in {NULL, 1} :
          /\ Created < MaxRows
          /\ nextId.session <= MaxOwned
          /\ CreatePomodoroSession([user |-> u, task |-> t])
    \/ \E u \in Users :
          /\ Created < MaxRows
          /\ nextId.reward <= MaxOwned
          /\ CreateReward([user |-> u, name |-> "r"])
    \/ /\ Created < MaxRows
       /\ nextId.quote <= MaxOwned
       /\ CreateDailyQuote([quote |-> "q", date |-> today])
    \/ /\ Created < MaxRows
       /\ nextId.exercise <= MaxOwned
       /\ CreateBreathingExercise([name |-> "b", duration |-> 5])
    \/ \E u \in Users :
          /\ Created < MaxRows
          /\ nextId.mood <= MaxOwned
          /\ CreateMoodEntry([user |-> u, mood |-> "3", energy_level |-> 5])
    \/ \E u \in Users : DeleteUser(u)

SpecAccount == Init /\ [][NextAccount]_vars

\* ================================================================= claims
\* The tasks reached from t by following parent_task upwards.
RECURSIVE Climb(_, _, _)
Climb(table, seen, t) ==
    LET p == table[t].parent_task
    IN  IF p = NULL \/ p \notin DOMAIN table \/ p \in seen
        THEN seen
        ELSE Climb(table, seen \cup {p}, p)
Ancestors(table, t) == Climb(table, {}, t)

NoDuplicateNames(table) ==
    \A i, j \in DOMAIN table :
        i # j => ~(table[i].user = table[j].user /\ table[i].name = table[j].name)

\* A step that creates a row of a table with unique (user, name): refused,
\* and nothing stored, when a row has that (user, name); stored otherwise.
NamedCreateChecked(op, before, after) ==
    last'.op = op =>
        LET kw == last'.kw
            taken == \E i \in DOMAIN before :
                        before[i].user = kw.user /\ before[i].name = kw.name
        IN  /\ taken => /\ last'.result = "UniquenessViolation"
                        /\ after = before
                        /\ UNCHANGED tables
            /\ (~taken /\ kw.user \in users) =>
                  /\ last'.result = "ok"
                  /\ last'.id \notin DOMAIN before
                  /\ DOMAIN after = DOMAIN before \cup {last'.id}
                  /\ after[last'.id].user = kw.user
                  /\ after[last'.id].name = kw.name
                  /\ \A i \in DOMAIN before : after[i] = before[i]

\* C1: a create of a Category or a Tag with the (account, name) of a stored
\* row of that table fails with UniquenessViolation and changes nothing; a
\* create with a (account, name) no row has, the same name under another
\* account included, is stored; so no two Categories and no two Tags ever
\* share (account, name).
C1_UniqueNamePerAccount ==
    /\ [](NoDuplicateNames(categories) /\ NoDuplicateNames(tags))
    /\ [][/\ NamedCreateChecked("CreateCategory", categories, categories')
          /\ NamedCreateChecked("CreateTag", tags, tags')]_vars

C1_DuplicateRefusedSameNameElsewhere ==
    /\ last.op = "CreateTag"
    /\ last.result = "UniquenessViolation"
    /\ tags # <<>>
    /\ \E i, j \in DOMAIN categories :
          categories[i].name = categories[j].name /\ categories[i].user # categories[j].user

\* C2: deleting a Category deletes no Task; the Tasks that referred to it have
\* category null, and every other field of every Task is as before.
C2_CategoryDeleteClearsReference ==
    [][(last'.op = "DeleteCategory" /\ last'.result = "ok") =>
          /\ last'.id \notin DOMAIN categories'
          /\ DOMAIN tasks' = DOMAIN tasks
          /\ \A t \in DOMAIN tasks :
                /\ tasks'[t].category =
                      IF tasks[t].category = last'.id THEN NULL ELSE tasks[t].category
                /\ \A f \in {"user", "title", "status", "priority", "parent_task", "tags"} :
                      tasks'[t][f] = tasks[t][f]]_vars

C2_ReferencedCategoryDeleted ==
    /\ last.op = "DeleteCategory"
    /\ last.result = "ok"
    /\ \E t \in last.cleared :
          /\ t \in DOMAIN tasks
          /\ tasks[t].category = NULL
          /\ tasks[t].tags # {}
          /\ tasks[t].parent_task # NULL
    /\ \E t \in DOMAIN tasks : tasks[t].category # NULL

\* C3: deleting a Task deletes it and exactly the Tasks that descend from it
\* through parent_task, at any depth; the Tasks that stay are unchanged and
\* none has a deleted parent.
C3_TaskDeleteCascades ==
    [][(last'.op = "DeleteTask" /\ last'.result = "ok") =>
          LET gone == DOMAIN tasks \ DOMAIN tasks'
          IN  /\ DOMAIN tasks' \subseteq DOMAIN tasks
              /\ gone = {t \in DOMAIN tasks :
                            t = last'.id \/ last'.id \in Ancestors(tasks, t)}
              /\ \A t \in DOMAIN tasks' :
                    /\ tasks'[t] = tasks[t]
                    /\ tasks'[t].parent_task \notin gone]_vars

\* A delete took a task and at least two more with it, and left a task.
C3_SubtreeDeleted ==
    /\ last.op = "DeleteTask"
    /\ last.result = "ok"
    /\ Cardinality(last.deleted) >= 3
    /\ tasks # <<>>

\* C9: deleting a Task, with the subtasks it takes along, deletes no
\* PomodoroSession; the sessions of a deleted Task have task null and every
\* other field as before, and the other sessions are unchanged.
C9_TaskDeleteKeepsSessions ==
    [][(last'.op = "DeleteTask" /\ last'.result = "ok") =>
          LET gone == DOMAIN tasks \ DOMAIN tasks'
          IN  /\ DOMAIN sessions' = DOMAIN sessions
              /\ \A s \in DOMAIN sessions :
                    /\ sessions'[s].task =
                          IF sessions[s].task \in gone THEN NULL ELSE sessions[s].task
                    /\ sessions'[s].task \in {NULL} \cup DOMAIN tasks'
                    /\ \A f \in {"user", "duration", "is_completed", "start_time",
                                 "end_time"} :
                          sessions'[s][f] = sessions[s][f]]_vars

\* Task 1 was deleted and took task 2 with it, whose session stays.
C9_SessionOfCascadedTaskKept ==
    /\ last.op = "DeleteTask"
    /\ last.result = "ok"
    /\ last.id = 1
    /\ 2 \in last.deleted
    /\ \E s \in last.cleared :
          /\ s \in DOMAIN sessions
          /\ sessions[s].task = NULL
          /\ sessions[s].duration = 50
          /\ sessions[s].user = "u2"

\* C10: the parent_task relation is a forest: every parent is a stored Task
\* and no Task is among its own ancestors.
C10_ParentRelationIsTree ==
    \A t \in DOMAIN tasks :
        /\ tasks[t].parent_task = NULL \/ tasks[t].parent_task \in DOMAIN tasks
        /\ t \notin Ancestors(tasks, t)

\* C4: deleting an account deletes the rows it owns in the seven owned
\* tables and no row of another account, leaves DailyQuote and
\* BreathingExercise alone, and leaves no row with an owner that is gone.
OwnedRowsOnly(before, after, u) ==
    /\ DOMAIN after = {i \in DOMAIN before : before[i].user # u}
    /\ \A i \in DOMAIN after : after[i].user \in users'

C4_AccountDeleteTakesOwnRowsOnly ==
    [][(last'.op = "DeleteUser" /\ last'.result = "ok") =>
          LET u == last'.id
          IN  /\ u \notin users'
              /\ OwnedRowsOnly(categories, categories', u)
              /\ OwnedRowsOnly(tags, tags', u)
              /\ OwnedRowsOnly(tasks, tasks', u)
              /\ OwnedRowsOnly(notes, notes', u)
              /\ OwnedRowsOnly(sessions, sessions', u)
              /\ OwnedRowsOnly(rewards, rewards', u)
              /\ OwnedRowsOnly(moods, moods', u)
              /\ quotes' = quotes
              /\ exercises' = exercises]_vars

C6_OneMoodEntryPerAccountAndDate ==
    /\ [](\A i, j \in DOMAIN moods :
             i # j => ~(moods[i].user = moods[j].user /\ moods[i].date = moods[j].date))
    /\ [][(/\ last'.op = "CreateMoodEntry"
           /\ last'.kw.mood \in MOOD_CHOICES
           /\ last'.kw.energy_level \in 1..10) =>
             LET u == last'.kw.user
                 d == Field(last'.kw, "date", today)
                 taken == \E i \in DOMAIN moods : moods[i].user = u /\ moods[i].date = d
             IN  /\ taken => /\ last'.result = "UniquenessViolation"
                             /\ moods' = moods
                 /\ ~taken => /\ last'.result = "ok"
                              /\ DOMAIN moods' = DOMAIN moods \cup {last'.id}
                              /\ moods'[last'.id].user = u
                              /\ moods'[last'.id].date = d
                              /\ \A i \in DOMAIN moods : moods'[i] = moods[i]]_vars

C6_SecondEntryRefusedSameDateElsewhere ==
    /\ last.op = "CreateMoodEntry"
    /\ last.result = "UniquenessViolation"
    /\ \E i, j \in DOMAIN moods :
          moods[i].user # moods[j].user /\ moods[i].date = moods[j].date

\* The row a create stored holds every value the caller gave.
StoredAsWritten(table) ==
    /\ last.id \in DOMAIN table
    /\ \A f \in DOMAIN last.kw : table[last.id][f] = last.kw[f]

RoundTrip(pending) ==
    /\ (last.op = "CreateTask" /\ last.result = "ok") =>
          /\ StoredAsWritten(tasks)
          /\ "status" \notin DOMAIN last.kw => tasks[last.id].status = pending
    /\ (last.op = "CreateNote" /\ last.result = "ok") =>
          /\ StoredAsWritten(notes)
          /\ "color" \notin DOMAIN last.kw => notes[last.id].color = "#FFFFFF"
    /\ (last.op = "CreatePomodoroSession" /\ last.result = "ok") =>
          /\ StoredAsWritten(sessions)
          /\ "duration" \notin DOMAIN last.kw => sessions[last.id].duration = 25

\* C7, as amended: the row read back after a create holds the values written
\* and, for the fields left out, Task.status = "P" (the stored code, shown as
\* "Pending"), Note.color = "#FFFFFF", PomodoroSession.duration = 25.
C7_RoundTripWithStoredDefaults == RoundTrip("P")

\* C7, as stated: the same with Task.status = "pending".
C7_RoundTripStatusPending == RoundTrip("pending")

C7_TaskCreatedWithoutStatus ==
    /\ last.op = "CreateTask"
    /\ last.result = "ok"
    /\ "status" \notin DOMAIN last.kw
    /\ tasks[last.id].status = "P"
    /\ StatusLabel[tasks[last.id].status] = "Pending"
    /\ \E n \in DOMAIN notes : notes[n].color = "#FFFFFF"
    /\ \E x \in DOMAIN sessions : sessions[x].duration = 25

\* A step that creates a Task with a priority given: refused, and nothing
\* stored, when the priority is none of `choices`; stored otherwise.
PriorityChecked(choices) ==
    (last'.op = "CreateTask" /\ "priority" \in DOMAIN last'.kw) =>
        /\ last'.kw.priority \notin choices =>
              /\ last'.result = "ValidationError"
              /\ tasks' = tasks
              /\ nextId' = nextId
        /\ (/\ last'.kw.priority \in choices
            /\ Field(last'.kw, "status", "P") \in {"P", "IP", "C"}) =>
              /\ last'.result = "ok"
              /\ tasks'[last'.id].priority = last'.kw.priority

====
